---- MODULE Spec2Model ----
(***************************************************************************)
(* Model of the Employee CRUD API (src/src/main.ts): the in-memory         *)
(* EmployeeStore (a Map from id to Employee, which iterates in insertion   *)
(* order) and the Express routes that call it.                             *)
(*                                                                         *)
(* JSON objects (request bodies, query strings, employees) are functions   *)
(* from field names to values; a field that is absent from the object is   *)
(* absent from the function's DOMAIN.  Query-string texts are tuples of    *)
(* one-character strings so that parseInt can be computed on them.  A      *)
(* JavaScript number is a record [nan, v]: NaN is [nan |-> TRUE, v |-> 0]. *)
(* Request bodies carry a JSON number in salary, JSON strings in the text  *)
(* fields, and times as integers: the seed's hire dates are time 0 and     *)
(* the n-th POST/PUT/DELETE request arrives at time n.                     *)
(***************************************************************************)
EXTENDS Integers, Sequences, FiniteSets, TLC

VARIABLES
    employees,  \* EmployeeStore.employees: the Map, as its entries in insertion order
    uuids,      \* how many ids uuidv4() has generated so far
    writes,     \* how many POST/PUT/DELETE requests have been handled
    req,        \* the request handled last
    res,        \* the response sent to it
    before,     \* history: the Map as it was when that request arrived
    idLog,      \* history: the id of every record seed and create stored, in order
    born        \* history: key -> position in idLog of the record stored under key

vars == <<employees, uuids, writes, req, res, before, idLog, born>>

(***************************** bounds **************************************)
SeedCount == 2      \* records generated at construction (10000 in the source)
MaxWrites == 2      \* POST/PUT/DELETE requests in one run
MaxPage == 4        \* pages the pagination properties range over

(************************* program constants *******************************)
DefaultPage == <<"1">>
DefaultLimit == <<"1", "0">>
MinPage == 1
MinLimit == 1
MaxLimit == 100
SeedMinSalary == 30000
SeedMaxSalary == 150000

(************************** JavaScript values ******************************)
Num(n) == [nan |-> FALSE, v |-> n]
NaN == [nan |-> TRUE, v |-> 0]

\* a < b on JavaScript numbers: false when either side is NaN
NumLt(a, b) == ~a.nan /\ ~b.nan /\ a.v < b.v
NumAdd(a, b) == IF a.nan \/ b.nan THEN NaN ELSE Num(a.v + b.v)
NumSub(a, b) == IF a.nan \/ b.nan THEN NaN ELSE Num(a.v - b.v)
NumMul(a, b) == IF a.nan \/ b.nan THEN NaN ELSE Num(a.v * b.v)

\* Math.floor in the place of Math.ceil
NumCeilDiv_Floor(a, b) ==
    IF a.nan \/ b.nan \/ b.v = 0 THEN NaN
    ELSE IF b.v > 0 THEN Num(a.v \div b.v)
    ELSE Num((-a.v) \div (-b.v))

\* Math.ceil(a / b); a / 0 is not an integer (Infinity or NaN) and is NaN here
NumCeilDiv(a, b) ==
    IF a.nan \/ b.nan \/ b.v = 0 THEN NaN
    ELSE IF b.v > 0 THEN Num(-((-a.v) \div b.v))
    ELSE Num(-(a.v \div (-b.v)))

Empty == [f \in {} |-> 0]

\* object spread { ...a, ...b }: the fields of both, b's value where both have one
Spread(a, b) ==
    [f \in (DOMAIN a) \cup (DOMAIN b) |-> IF f \in DOMAIN b THEN b[f] ELSE a[f]]

Without(a, f) == [g \in (DOMAIN a) \ {f} |-> a[g]]

\* !x for a destructured text field: absent (undefined) or the empty string
Falsy(body, f) == f \notin DOMAIN body \/ body[f] = ""

Digits == <<"0", "1", "2", "3", "4", "5", "6", "7", "8", "9">>
IsDigit(c) == \E d \in 1..10 : Digits[d] = c
DigitVal(c) == (CHOOSE d \in 1..10 : Digits[d] = c) - 1

RECURSIVE TrimStart(_)
TrimStart(s) == IF s # <<>> /\ Head(s) = " " THEN TrimStart(Tail(s)) ELSE s

RECURSIVE DigitPrefix(_)
DigitPrefix(s) ==
    IF s # <<>> /\ IsDigit(Head(s)) THEN <<Head(s)>> \o DigitPrefix(Tail(s)) ELSE <<>>

RECURSIVE DigitsValue(_, _)
DigitsValue(s, acc) ==
    IF s = <<>> THEN acc ELSE DigitsValue(Tail(s), acc * 10 + DigitVal(Head(s)))

\* parseInt(text, 10)
parseInt(text) ==
    LET t == TrimStart(text)
        neg == t # <<>> /\ Head(t) = "-"
        signed == t # <<>> /\ Head(t) \in {"-", "+"}
        ds == DigitPrefix(IF signed THEN Tail(t) ELSE t)
    IN  IF ds = <<>> THEN NaN
        ELSE Num(IF neg THEN -DigitsValue(ds, 0) ELSE DigitsValue(ds, 0))

\* Array.prototype.slice(start, end) on an array
RelIndex(n, len) ==
    IF n.nan THEN 0
    ELSE IF n.v < 0 THEN (IF len + n.v < 0 THEN 0 ELSE len + n.v)
    ELSE (IF n.v > len THEN len ELSE n.v)

Slice(arr, start, end) ==
    LET k == RelIndex(start, Len(arr))
        final == RelIndex(end, Len(arr))
    IN  IF final <= k THEN <<>> ELSE SubSeq(arr, k + 1, final)

(****************************** the Map ************************************)
Keys(m) == {m[i].key : i \in 1..Len(m)}
KeySeq(m) == [i \in 1..Len(m) |-> m[i].key]
Values(m) == [i \in 1..Len(m) |-> m[i].value]
MapHas(m, k) == k \in Keys(m)
IndexOf(m, k) == CHOOSE i \in 1..Len(m) : m[i].key = k
MapGet(m, k) == m[IndexOf(m, k)].value

\* Map.set: a new key goes to the end, an existing key keeps its place
MapSet(m, k, v) ==
    IF MapHas(m, k) THEN [m EXCEPT ![IndexOf(m, k)].value = v]
    ELSE Append(m, [key |-> k, value |-> v])

\* a delete that takes out the entry after the one asked for
MapDelete_NextEntry(m, k) ==
    IF MapHas(m, k)
    THEN LET i == IndexOf(m, k) IN SubSeq(m, 1, i) \o SubSeq(m, i + 2, Len(m))
    ELSE m

\* Map.delete: the entries without k, order kept
MapDelete(m, k) ==
    IF MapHas(m, k)
    THEN LET i == IndexOf(m, k) IN SubSeq(m, 1, i - 1) \o SubSeq(m, i + 1, Len(m))
    ELSE m

(************************** EmployeeStore **********************************)
\* uuidv4(): the n-th id generated; no two calls return the same id
uuidv4(n) == "uuid-" \o ToString(n)

SeedEmployee(i, sal, act) ==
    [id |-> uuidv4(i), firstName |-> "Seed", lastName |-> "Person",
     email |-> "seed@example.com", position |-> "Agent",
     department |-> "Tools", salary |-> sal, hireDate |-> 0, isActive |-> act]

RECURSIVE seedData(_, _, _)
seedData(n, sal, act) ==
    IF n = 0 THEN <<>>
    ELSE MapSet(seedData(n - 1, sal, act), uuidv4(n), SeedEmployee(n, sal[n], act[n]))

\* create: the employee object built from the generated id, the body and the time
NewEmployee(id, employeeData, now) ==
    Spread(Spread([id |-> id], employeeData), [hireDate |-> now, isActive |-> TRUE])

findById(m, id) == IF MapHas(m, id) THEN MapGet(m, id) ELSE Empty

\* a findAll whose pages count from zero: startIndex = page * limit
findAll_ZeroBased(m, page, limit) ==
    LET allEmployees == Values(m)
        total == Len(allEmployees)
        totalPages == NumCeilDiv(Num(total), limit)
        startIndex == NumMul(page, limit)
        endIndex == NumAdd(startIndex, limit)
    IN  [data |-> Slice(allEmployees, startIndex, endIndex),
         pagination |-> [page |-> page, limit |-> limit, total |-> total,
                         totalPages |-> totalPages,
                         hasNext |-> NumLt(page, totalPages),
                         hasPrev |-> NumLt(Num(1), page)]]

findAll(m, page, limit) ==
    LET allEmployees == Values(m)
        total == Len(allEmployees)
        totalPages == NumCeilDiv(Num(total), limit)
        startIndex == NumMul(NumSub(page, Num(1)), limit)
        endIndex == NumAdd(startIndex, limit)
    IN  [data |-> Slice(allEmployees, startIndex, endIndex),
         pagination |-> [page |-> page, limit |-> limit, total |-> total,
                         totalPages |-> totalPages,
                         hasNext |-> NumLt(page, totalPages),
                         hasPrev |-> NumLt(Num(1), page)]]

\* a merge with the spreads in the other order: { ...updateData, ...employee }
UpdatedEmployee_StoredWins(employee, updateData) == Spread(updateData, employee)

\* update: the merged employee
UpdatedEmployee(employee, updateData) == Spread(employee, updateData)

count(m) == Len(m)

(*************************** request layer *********************************)
TextFields == {"firstName", "lastName", "email", "position", "department"}

\* validateCreateEmployee: TRUE when next() is called.  A body's salary, when it
\* has one, is a JSON number, so typeof salary !== 'number' is the absent salary.
validateCreateEmployee(body) ==
    /\ \A f \in TextFields : ~Falsy(body, f)
    /\ "salary" \in DOMAIN body
    /\ ~(body.salary < 0)

\* the guard of GET /employees: TRUE when the request is answered 400
RejectPagination(page, limit) ==
    NumLt(page, Num(MinPage)) \/ NumLt(limit, Num(MinLimit)) \/ NumLt(Num(MaxLimit), limit)

QueryNumber(query, f, default) ==
    parseInt(IF f \notin DOMAIN query \/ query[f] = <<>> THEN default ELSE query[f])

(**************************** the inputs ***********************************)
ValidBody(sal) ==
    [firstName |-> "John", lastName |-> "Doe", email |-> "john.doe@example.com",
     position |-> "Software Engineer", department |-> "Engineering", salary |-> sal]

\* ids a client can put in a path: any id generated so far, or a text of its own
ClientIds == {uuidv4(i) : i \in 1..uuids} \cup {"non-existent-id"}

\* ids a client puts in a body: the first id the server gave out, or a text of its own
BodyIds == {uuidv4(1), "client-id"}

CreateBodies ==
    {ValidBody(75000), ValidBody(0), ValidBody(-1),
     Without(ValidBody(75000), "firstName"),
     Without(ValidBody(75000), "salary"),
     [ValidBody(75000) EXCEPT !.email = ""],
     Spread(ValidBody(75000), [hireDate |-> 0, isActive |-> FALSE])}
    \cup {Spread(ValidBody(75000), [id |-> i]) : i \in BodyIds}

UpdateBodies ==
    {Empty,
     [salary |-> 80000, position |-> "Senior Designer"],
     [salary |-> -1],
     [id |-> uuidv4(1)],
     [id |-> "client-id", isActive |-> FALSE, hireDate |-> 0]}

PageTexts == {<<"1">>, <<"2">>, <<"3">>, <<"a", "b", "c">>}
LimitTexts == {<<"2">>, <<"1", "0", "0">>, <<"1", "0", "1">>, <<"-", "1">>, <<" ", "3", "x">>, <<>>}

Queries ==
    {Empty, [page |-> <<"a", "b", "c">>], [page |-> <<"0">>, limit |-> <<"0">>]}
    \cup {[page |-> p, limit |-> <<"2">>] : p \in PageTexts}
    \cup {[page |-> <<"2">>, limit |-> <<"1">>]}
    \cup {[limit |-> l] : l \in LimitTexts}

\* new Date(): the time now, one more than the write requests handled before
Now == writes + 1

Request(op, id, body, query) ==
    [op |-> op, id |-> id, body |-> body, query |-> query, at |-> Now]

Response(status, body) == [status |-> status, body |-> body]

(***************************** the state ***********************************)
Init ==
    /\ employees = seedData(SeedCount,
                             [i \in 1..SeedCount |->
                                IF i % 2 = 1 THEN SeedMinSalary ELSE SeedMaxSalary],
                             [i \in 1..SeedCount |-> i % 2 = 1])
    /\ uuids = SeedCount
    /\ writes = 0
    /\ req = [op |-> "init", id |-> "", body |-> Empty, query |-> Empty, at |-> 1]
    /\ res = Response(0, Empty)
    /\ before = employees
    /\ idLog = [i \in 1..SeedCount |-> uuidv4(i)]
    /\ born = [k \in {uuidv4(i) : i \in 1..SeedCount} |->
                 CHOOSE i \in 1..SeedCount : uuidv4(i) = k]

\* POST /employees: validateCreateEmployee, then EmployeeStore.create(req.body)
PostEmployees(body) ==
    /\ writes < MaxWrites
    /\ writes' = writes + 1
    /\ req' = Request("create", "", body, Empty)
    /\ before' = employees
    /\ IF ~validateCreateEmployee(body)
       THEN /\ res' = Response(400, Empty)
            /\ UNCHANGED <<employees, uuids, idLog, born>>
       ELSE LET employee == NewEmployee(uuidv4(uuids + 1), body, Now)
            IN  /\ uuids' = uuids + 1
                /\ employees' = MapSet(employees, employee.id, employee)
                /\ res' = Response(201, employee)
                /\ idLog' = Append(idLog, employee.id)
                /\ born' = [k \in (DOMAIN born) \cup {employee.id} |->
                              IF k = employee.id THEN Len(idLog) + 1 ELSE born[k]]

\* PUT /employees/:id: EmployeeStore.update(req.params.id, req.body)
PutEmployee(id, body) ==
    /\ writes < MaxWrites
    /\ writes' = writes + 1
    /\ req' = Request("update", id, body, Empty)
    /\ before' = employees
    /\ UNCHANGED <<uuids, idLog, born>>
    /\ IF ~MapHas(employees, id)
       THEN /\ res' = Response(404, Empty)
            /\ UNCHANGED employees
       ELSE LET updatedEmployee == UpdatedEmployee(MapGet(employees, id), body)
            IN  /\ employees' = MapSet(employees, id, updatedEmployee)
                /\ res' = Response(200, updatedEmployee)

\* DELETE /employees/:id: EmployeeStore.delete(req.params.id)
DeleteEmployee(id) ==
    /\ writes < MaxWrites
    /\ writes' = writes + 1
    /\ req' = Request("delete", id, Empty, Empty)
    /\ before' = employees
    /\ employees' = MapDelete(employees, id)
    /\ LET deleted == MapHas(employees, id)
       IN  res' = Response(IF deleted THEN 200 ELSE 404, Empty)
    /\ born' = [k \in (DOMAIN born) \ {id} |-> born[k]]
    /\ UNCHANGED <<uuids, idLog>>

\* GET /employees?page=..&limit=..
GetEmployees(query) ==
    LET page == QueryNumber(query, "page", DefaultPage)
        limit == QueryNumber(query, "limit", DefaultLimit)
    IN  /\ req' = Request("list", "", Empty, query)
        /\ before' = employees
        /\ res' = IF RejectPagination(page, limit)
                  THEN Response(400, [data |-> <<>>,
                                      pagination |-> [page |-> Num(0), limit |-> Num(0),
                                                      total |-> 0, totalPages |-> Num(0),
                                                      hasNext |-> FALSE, hasPrev |-> FALSE]])
                  ELSE Response(200, findAll(employees, page, limit))
        /\ UNCHANGED <<employees, uuids, writes, idLog, born>>

\* GET /employees/:id
GetEmployeeById(id) ==
    /\ req' = Request("get", id, Empty, Empty)
    /\ before' = employees
    /\ res' = IF MapHas(employees, id)
              THEN Response(200, findById(employees, id))
              ELSE Response(404, Empty)
    /\ UNCHANGED <<employees, uuids, writes, idLog, born>>

\* GET /health
GetHealth ==
    /\ req' = Request("health", "", Empty, Empty)
    /\ before' = employees
    /\ res' = Response(200, [employeeCount |-> count(employees)])
    /\ UNCHANGED <<employees, uuids, writes, idLog, born>>

Next ==
    \/ \E body \in CreateBodies : PostEmployees(body)
    \/ \E id \in ClientIds, body \in UpdateBodies : PutEmployee(id, body)
    \/ \E id \in ClientIds : DeleteEmployee(id)
    \/ \E query \in Queries : GetEmployees(query)
    \/ \E id \in ClientIds : GetEmployeeById(id)
    \/ GetHealth

Spec == Init /\ [][Next]_vars

(***************************** properties **********************************)
Min(a, b) == IF a < b THEN a ELSE b
Max(a, b) == IF a > b THEN a ELSE b

\* the limits the pagination properties range over: the low ones and the two highest
LimitRange == MinLimit..(MinLimit + 2) \cup {MaxLimit - 1, MaxLimit}

ValidPage(n) == ~n.nan /\ n.v >= MinPage
ValidLimit(n) == ~n.nan /\ n.v >= MinLimit /\ n.v <= MaxLimit

Created == req.op = "create" /\ res.status = 201
Updated == req.op = "update" /\ res.status = 200
Deleted == req.op = "delete" /\ res.status = 200
Listed == req.op = "list" /\ res.status = 200

RECURSIVE Pages(_, _, _)
\* the data of pages 1..n at one limit, one after the other
Pages(m, n, limit) ==
    IF n = 0 THEN <<>>
    ELSE Pages(m, n - 1, limit) \o findAll(m, Num(n), Num(limit)).data

\* C1: every create request the validator passes is answered with a record that
\* findById then returns, that is active and hired at the time of the request,
\* and the store holds exactly one record more than before.
C1_CreateContract ==
    req.op = "create" =>
        /\ validateCreateEmployee(req.body) => res.status = 201
        /\ res.status = 201 =>
              /\ findById(employees, res.body.id) = res.body
              /\ count(employees) = count(before) + 1
              /\ res.body.isActive = TRUE
              /\ res.body.hireDate = req.at

\* C2: no two live records have the same id, and no id that seed or create gave
\* to a record is given to a record again by a later create.
C2_IdsUniqueNeverReused ==
    /\ \A i, j \in 1..Len(employees) :
          i # j => employees[i].value.id # employees[j].value.id
    /\ \A i, j \in 1..Len(idLog) : i # j => idLog[i] # idLog[j]

\* C3: update leaves the id of the record alone whatever the payload holds: the
\* record returned and the record stored under the key have the key as their id,
\* and every stored record's id is the key it is stored under.
C3_UpdateKeepsId ==
    /\ Updated => res.body.id = req.id /\ findById(employees, req.id).id = req.id
    /\ \A i \in 1..Len(employees) : employees[i].value.id = employees[i].key

\* C4: every record in the store has a salary of at least 0.
C4_SalaryNonNegative ==
    \A i \in 1..Len(employees) : employees[i].value.salary >= 0

\* C5: update is a shallow merge.  On an existing record every field of the payload
\* has the payload's value in the record returned and stored, every other field has
\* the value it had, the other records and the count are as before; on an id that
\* is not in the table the answer is not-found and the table is as before.
C5_UpdateShallowMerge ==
    req.op = "update" =>
        IF MapHas(before, req.id)
        THEN LET old == MapGet(before, req.id)
                 new == findById(employees, req.id)
             IN  /\ res.status = 200
                 /\ res.body = new
                 /\ DOMAIN new = (DOMAIN old) \cup (DOMAIN req.body)
                 /\ \A f \in DOMAIN req.body : new[f] = req.body[f]
                 /\ \A f \in (DOMAIN old) \ (DOMAIN req.body) : new[f] = old[f]
                 /\ count(employees) = count(before)
                 /\ \A i \in 1..Len(before) :
                       /\ employees[i].key = before[i].key
                       /\ before[i].key # req.id => employees[i] = before[i]
        ELSE /\ res.status = 404
             /\ employees = before

C5_Witness ==
    /\ Updated
    /\ req.body = [salary |-> 80000, position |-> "Senior Designer"]
    /\ res.body.salary = 80000
    /\ res.body.firstName = "John"
    /\ Len(employees) > 1

\* C6: delete of an id in the table answers true, after which findById finds
\* nothing under the id, the count is one less and the other records are as they
\* were, in the same order; delete of an id not in the table answers false and
\* leaves the table as it was.
C6_DeleteContract ==
    req.op = "delete" =>
        IF MapHas(before, req.id)
        THEN /\ res.status = 200
             /\ findById(employees, req.id) = Empty
             /\ count(employees) = count(before) - 1
             /\ employees = SelectSeq(before, LAMBDA e : e.key # req.id)
        ELSE /\ res.status = 404
             /\ employees = before

C6_Witness ==
    /\ Deleted
    /\ count(employees) = count(before) - 1
    /\ count(employees) > 0
    /\ before[1].key = req.id

\* C7: for every page >= 1 and limit in 1..100, the data of findAll has
\* min(limit, max(0, total - (page - 1) * limit)) records; past the end it is empty.
C7_PageLength ==
    /\ \A p \in MinPage..MaxPage, l \in LimitRange :
          Len(findAll(employees, Num(p), Num(l)).data)
            = Min(l, Max(0, Len(employees) - (p - 1) * l))
    /\ Listed /\ ValidPage(res.body.pagination.page)
              /\ ValidLimit(res.body.pagination.limit) =>
          Len(res.body.data)
            = Min(res.body.pagination.limit.v,
                  Max(0, Len(employees)
                           - (res.body.pagination.page.v - 1) * res.body.pagination.limit.v))

C7_Witness ==
    /\ Listed
    /\ res.body.pagination.page = Num(2)
    /\ res.body.pagination.limit = Num(2)
    /\ Len(employees) \in {1, 2}
    /\ res.body.data = <<>>

\* C8: for every page >= 1 and limit in 1..100, the metadata of findAll has total
\* equal to the size of the table, totalPages the least n with n * limit >= total
\* (0 for an empty table), hasNext = (page < totalPages) and hasPrev = (page > 1).
C8_Metadata ==
    \A p \in MinPage..MaxPage, l \in LimitRange :
        LET meta == findAll(employees, Num(p), Num(l)).pagination
            total == Len(employees)
        IN  /\ meta.total = total
            /\ ~meta.totalPages.nan
            /\ meta.totalPages.v >= 0
            /\ meta.totalPages.v * l >= total
            /\ (meta.totalPages.v - 1) * l < total
            /\ total = 0 => meta.totalPages.v = 0
            /\ meta.hasNext = (p < meta.totalPages.v)
            /\ meta.hasPrev = (p > 1)

C8_Witness ==
    /\ Listed
    /\ res.body.pagination.page = Num(1)
    /\ res.body.pagination.limit = Num(2)
    /\ res.body.pagination.total = 3
    /\ res.body.pagination.totalPages = Num(2)
    /\ res.body.pagination.hasNext
    /\ ~res.body.pagination.hasPrev

\* C9: a list request without page gets page 1, without limit gets limit 10, is
\* answered with a client error exactly when the parsed values break page >= 1 and
\* 1 <= limit <= 100, and findAll is only called with page >= 1 and 1 <= limit <= 100.
C9_PaginationValidated ==
    req.op = "list" =>
        LET page == QueryNumber(req.query, "page", DefaultPage)
            limit == QueryNumber(req.query, "limit", DefaultLimit)
        IN  /\ "page" \notin DOMAIN req.query => page = Num(1)
            /\ "limit" \notin DOMAIN req.query => limit = Num(10)
            /\ res.status = 400 <=> ~(ValidPage(page) /\ ValidLimit(limit))
            /\ res.status = 200 =>
                  /\ res.body.pagination.page = page
                  /\ res.body.pagination.limit = limit
                  /\ ValidPage(res.body.pagination.page)
                  /\ ValidLimit(res.body.pagination.limit)

\* C10: findAll lists the live records in the order they were created: the pages
\* 1..totalPages of a limit, one after the other, are the live records once each
\* in creation order; create puts its record at the end, update keeps every record
\* at its place, delete takes one record out and keeps the order of the others.
C10_InsertionOrder ==
    /\ \A l \in LimitRange :
          Pages(employees, findAll(employees, Num(1), Num(l)).pagination.totalPages.v, l)
            = Values(employees)
    /\ \A i, j \in 1..Len(employees) :
          i < j => born[employees[i].key] < born[employees[j].key]
    /\ Created => employees = Append(before, [key |-> res.body.id, value |-> res.body])
    /\ Updated => KeySeq(employees) = KeySeq(before)
    /\ Deleted => KeySeq(employees) = SelectSeq(KeySeq(before), LAMBDA k : k # req.id)

====
